---- MODULE Spec2Model ----
(***************************************************************************)
(* Model of the LARS / LASSO / Elastic-Net path solver of lars.h (class    *)
(* Lars).  The solver's fields and the locals of DoLARS that live across   *)
(* loop iterations are the state; Init*, SetY, UpdateX and DoLARS are the  *)
(* operations.  DoLARS is split at its loop: DoLARSStart is the code up to *)
(* the while, LoopIter is one whole iteration of the loop body, LoopExit   *)
(* is leaving the loop when its condition is false.                        *)
(*                                                                         *)
(* Numbers.  The code computes in doubles; the model computes exactly.     *)
(* Every value the algorithm produces on rational input is a rational      *)
(* multiple of one square root, so a number is a triple <<n, d, r>> that   *)
(* stands for (n/d)*sqrt(r), in lowest terms, d > 0, r squarefree, r = 1   *)
(* when n = 0.  d = 0 encodes the IEEE specials: <<0,0,1>> is NaN,         *)
(* <<1,0,1>> is +inf and <<-1,0,1>> is -inf.  Rounding is not modelled.    *)
(***************************************************************************)
EXTENDS Integers, Sequences, FiniteSets, TLC

----------------------------------------------------------------------------
(* Exact arithmetic on numbers (n/d)*sqrt(r)                               *)

Abs(x) == IF x < 0 THEN -x ELSE x

Sgn(x) == IF x < 0 THEN -1 ELSE IF x > 0 THEN 1 ELSE 0

RECURSIVE Gcd(_, _)
Gcd(a, b) == IF b = 0 THEN Abs(a) ELSE Gcd(b, a % b)

NaN == <<0, 0, 1>>

PosInf == <<1, 0, 1>>

NegInf == <<-1, 0, 1>>

IsFinite(a) == a[2] # 0

IsNaN(a) == a = NaN

\* (n/d)*sqrt(r) in canonical form, for d # 0 and r squarefree.
Canon(n, d, r) ==
    IF n = 0 THEN <<0, 1, 1>>
    ELSE LET g == Gcd(Abs(n), Abs(d))
             s == IF d < 0 THEN -1 ELSE 1
         IN  <<s * (n \div g), s * (d \div g), r>>

Rat(n, d) == Canon(n, d, 1)

Num(n) == <<n, 1, 1>>

Zero == <<0, 1, 1>>

One == <<1, 1, 1>>

IsZero(a) == a = Zero

Neg(a) == IF IsFinite(a) THEN <<-a[1], a[2], a[3]>>
          ELSE <<-a[1], 0, 1>>

\* sqrt(r1)*sqrt(r2) = g*sqrt((r1/g)*(r2/g)), g = gcd(r1, r2), both squarefree.
Mul(a, b) ==
    IF ~IsFinite(a) \/ ~IsFinite(b) THEN NaN
    ELSE LET g == Gcd(a[3], b[3])
         IN  Canon(a[1] * b[1] * g, a[2] * b[2], (a[3] \div g) * (b[3] \div g))

\* 1/((n/d)*sqrt(r)) = (d/(n*r))*sqrt(r), for a finite and nonzero.
Inv(a) == Canon(a[2], a[1] * a[3], a[3])

\* IEEE division: x/0 is +inf, -inf or NaN by the sign of x.
Div(a, b) ==
    IF ~IsFinite(a) \/ ~IsFinite(b) THEN NaN
    ELSE IF IsZero(b)
         THEN (IF a[1] > 0 THEN PosInf ELSE IF a[1] < 0 THEN NegInf ELSE NaN)
         ELSE Mul(a, Inv(b))

\* Sum of two numbers over the same square root (the only sums the
\* algorithm forms); a sum over two different roots has no representation
\* here and is an evaluation error.
Add(a, b) ==
    IF ~IsFinite(a) \/ ~IsFinite(b) THEN NaN
    ELSE IF IsZero(a) THEN b
    ELSE IF IsZero(b) THEN a
    ELSE IF a[3] = b[3]
         THEN Canon(a[1] * b[2] + b[1] * a[2], a[2] * b[2], a[3])
         ELSE CHOOSE x \in {} : TRUE

Sub(a, b) == Add(a, Neg(b))

\* The largest s with s*s dividing n, found by trial from k upwards.
RECURSIVE SquarePart(_, _)
SquarePart(n, k) ==
    IF k * k > n THEN 1
    ELSE IF n % (k * k) = 0 THEN k * SquarePart(n \div (k * k), k)
    ELSE SquarePart(n, k + 1)

\* sqrt of a rational: sqrt(n/d) = (sn/(sd*md))*sqrt(mn*md), n = sn^2*mn,
\* d = sd^2*md.  sqrt of a negative number is NaN.
Sqrt(a) ==
    IF ~IsFinite(a) \/ a[1] < 0 THEN NaN
    ELSE IF a[1] = 0 THEN Zero
    ELSE LET sn == SquarePart(a[1], 2)
             sd == SquarePart(a[2], 2)
             mn == a[1] \div (sn * sn)
             md == a[2] \div (sd * sd)
         IN  Canon(sn, sd * md, mn * md)

\* a > 0 as the double comparison: false for NaN and -inf, true for +inf.
Gt0(a) == a[1] > 0

\* sign(a)*a^2 as a rational <<n, d>>, to compare numbers over different roots
SignedSquare(a) == <<Sgn(a[1]) * a[1] * a[1] * a[3], a[2] * a[2]>>

\* a < b as the double comparison: false when either is NaN.
Lt(a, b) ==
    IF IsNaN(a) \/ IsNaN(b) THEN FALSE
    ELSE IF a = PosInf \/ b = NegInf THEN FALSE
    ELSE IF a = NegInf \/ b = PosInf THEN TRUE
    ELSE IF a[3] = b[3] THEN a[1] * b[2] < b[1] * a[2]
    ELSE LET x == SignedSquare(a)
             y == SignedSquare(b)
         IN  x[1] * y[2] < y[1] * x[2]

Le(a, b) == IF IsNaN(a) \/ IsNaN(b) THEN FALSE ELSE ~Lt(b, a)

\* |a| of a finite rational
FAbs(a) == IF a[1] < 0 THEN Neg(a) ELSE a

RECURSIVE SumSeq(_)
SumSeq(s) == IF s = <<>> THEN Zero ELSE Add(Head(s), SumSeq(Tail(s)))

\* dot(u, v) of two vectors of the same length
Dot(u, v) == SumSeq([i \in 1..Len(u) |-> Mul(u[i], v[i])])

----------------------------------------------------------------------------
(* Dense linear algebra, as the library computes it in exact arithmetic.   *)
(* A matrix is a sequence of rows, except X_, which is kept as the        *)
(* sequence of its columns (the code only ever takes X_.col(j)).           *)

\* solve(trans(R), g) for upper-triangular R, by forward substitution:
\* z[i] = (g[i] - sum_{k<i} R[k][i]*z[k]) / R[i][i]; z is built up to row i.
RECURSIVE ForwardSolve(_, _, _)
ForwardSolve(R, g, i) ==
    IF i = 0 THEN <<>>
    ELSE LET z == ForwardSolve(R, g, i - 1)
             acc == Sub(g[i], SumSeq([k \in 1..(i - 1) |-> Mul(R[k][i], z[k])]))
         IN  Append(z, Div(acc, R[i][i]))

\* solve(R, z) for upper-triangular R, by back substitution; the result
\* holds rows i..n of the solution.
RECURSIVE BackSolve(_, _, _)
BackSolve(R, z, i) ==
    LET n == Len(R)
    IN  IF i > n THEN <<>>
        ELSE LET d == BackSolve(R, z, i + 1)
                 acc == Sub(z[i],
                            SumSeq([k \in 1..(n - i) |-> Mul(R[i][i + k], d[k])]))
             IN  <<Div(acc, R[i][i])>> \o d

\* The first row r..Len(M) of M with a nonzero entry in column k, or 0
RECURSIVE PivotRow(_, _, _)
PivotRow(M, k, r) ==
    IF r > Len(M) THEN 0
    ELSE IF ~IsZero(M[r][k]) THEN r
    ELSE PivotRow(M, k, r + 1)

\* One step of the elimination, on a row piv of M that has a nonzero entry in
\* column k: the rows k and piv are exchanged and column k is cleared below
\* row k.
Eliminate(M, k, piv) ==
    LET S == [i \in 1..Len(M) |->
                IF i = k THEN M[piv] ELSE IF i = piv THEN M[k] ELSE M[i]]
    IN  [i \in 1..Len(M) |->
           IF i <= k THEN S[i]
           ELSE [j \in 1..Len(S[i]) |->
                   Sub(S[i][j], Mul(Div(S[i][k], S[k][k]), S[k][j]))]]

\* The elimination from column k on; it stops at a column without a pivot.
RECURSIVE Reduce(_, _)
Reduce(M, k) ==
    IF k > Len(M) THEN M
    ELSE LET piv == PivotRow(M, k, k)
         IN  IF piv = 0 THEN M ELSE Reduce(Eliminate(M, k, piv), k + 1)

\* The square matrix M is singular, or holds a value that is not finite
Singular(M) ==
    LET U == Reduce(M, 1)
    IN  \E i \in 1..Len(U) : IsZero(U[i][i]) \/ ~IsFinite(U[i][i])

\* solve(M, b) for a square M: elimination with row exchanges on M extended
\* by the column b, then back substitution.
Solve(M, b) ==
    LET n == Len(M)
        U == Reduce([i \in 1..n |-> Append(M[i], b[i])], 1)
    IN  BackSolve(U, [i \in 1..n |-> U[i][n + 1]], 1)

----------------------------------------------------------------------------
(* CholeskyFactorizer                                                      *)

\* Lars::CholeskyInsert(R, new_x, new_Gram_col)
CholeskyInsert(R, new_x, new_Gram_col, en, l2) ==
    LET n == Len(R)
        sq_norm_new_x == IF en THEN Add(Dot(new_x, new_x), l2)
                         ELSE Dot(new_x, new_x)
    IN  IF n = 0
        THEN << <<Sqrt(sq_norm_new_x)>> >>
        ELSE LET R_k == ForwardSolve(R, new_Gram_col, n)
                 diag == Sqrt(Sub(sq_norm_new_x, Dot(R_k, R_k)))
             IN  [i \in 1..(n + 1) |->
                    [j \in 1..(n + 1) |->
                       IF i <= n /\ j <= n THEN R[i][j]
                       ELSE IF i <= n THEN R_k[i]
                       ELSE IF j <= n THEN Zero
                       ELSE diag]]

\* The radicand CholeskyInsert takes the square root of
InsertRadicand(R, new_x, new_Gram_col, en, l2) ==
    LET sq_norm_new_x == IF en THEN Add(Dot(new_x, new_x), l2)
                         ELSE Dot(new_x, new_x)
    IN  IF Len(R) = 0 THEN sq_norm_new_x
        ELSE LET R_k == ForwardSolve(R, new_Gram_col, Len(R))
             IN  Sub(sq_norm_new_x, Dot(R_k, R_k))

\* Lars::GivensRotate(x, rotated_x, G): [rot |-> rotated_x, G |-> G]
GivensRotate(x) ==
    IF IsZero(x[2])
    THEN [rot |-> x, G |-> << <<One, Zero>>, <<Zero, One>> >>]
    ELSE LET r == Sqrt(Add(Mul(x[1], x[1]), Mul(x[2], x[2])))
             scaled_x1 == Div(x[1], r)
             scaled_x2 == Div(x[2], r)
         IN  [rot |-> <<r, Zero>>,
              G |-> << <<scaled_x1, scaled_x2>>, <<Neg(scaled_x2), scaled_x1>> >>]

\* One pass of the loop of CholeskyDelete at column k (1-based) of the
\* n-column matrix R: rows k, k+1 are rotated so that R[k+1][k] becomes 0.
RotateAt(R, k, n) ==
    LET g == GivensRotate(<<R[k][k], R[k + 1][k]>>)
    IN  [i \in 1..Len(R) |->
           [j \in 1..n |->
              IF i = k /\ j = k THEN g.rot[1]
              ELSE IF i = k + 1 /\ j = k THEN g.rot[2]
              ELSE IF i = k /\ j > k
                   THEN Add(Mul(g.G[1][1], R[k][j]), Mul(g.G[1][2], R[k + 1][j]))
              ELSE IF i = k + 1 /\ j > k
                   THEN Add(Mul(g.G[2][1], R[k][j]), Mul(g.G[2][2], R[k + 1][j]))
              ELSE R[i][j]]]

RECURSIVE RotateFrom(_, _, _)
RotateFrom(R, k, n) ==
    IF k > n THEN R ELSE RotateFrom(RotateAt(R, k, n), k + 1, n)

\* Lars::CholeskyDelete(R, col_to_kill), col_to_kill a 0-based column of R,
\* for an R with at least two rows or a column other than the last.
CholeskyDelete(R, col_to_kill) ==
    LET n == Len(R)
    IN  IF col_to_kill = n - 1
        THEN [i \in 1..(n - 1) |-> [j \in 1..(n - 1) |-> R[i][j]]]
        ELSE LET shed == [i \in 1..n |->
                            [j \in 1..(n - 1) |->
                               R[i][IF j <= col_to_kill THEN j ELSE j + 1]]]
                 rot == RotateFrom(shed, col_to_kill + 1, n - 1)
             IN  [i \in 1..(n - 1) |-> rot[i]]

----------------------------------------------------------------------------
(* The solver                                                              *)

VARIABLES
    X_, y_,                 \* dataset: X_ as its sequence of columns
    Gram_, Xty_,            \* GramCache
    use_cholesky_, lasso_, desired_lambda_, elastic_net_, lambda_2_,
    beta_path_, lambda_path_,
    n_active_, active_set_, is_active_,
    \* locals of DoLARS that live across iterations
    beta, y_hat, kick_out, corr, change_ind, max_corr, R,
    pc,                     \* "new" (constructed), "idle", "loop" (inside DoLARS)
    outcome,                \* how the last call ended: "returned" or "threw"
    last_call,              \* what the last call was, and on which input
    seen,                   \* history: indices activated since the last Init
    seen_path,              \* history: seen, at the append of each beta_path_ entry
    iters,                  \* history: iterations of the main loop in this run
    runs,                   \* number of DoLARS calls made
    updates                 \* number of SetY and UpdateX calls made

vars == <<X_, y_, Gram_, Xty_, use_cholesky_, lasso_, desired_lambda_,
          elastic_net_, lambda_2_, beta_path_, lambda_path_, n_active_,
          active_set_, is_active_, beta, y_hat, kick_out, corr, change_ind,
          max_corr, R, pc, outcome, last_call, seen, seen_path, iters, runs,
          updates>>

fields == <<X_, y_, Gram_, Xty_, use_cholesky_, lasso_, desired_lambda_,
            elastic_net_, lambda_2_, beta_path_, lambda_path_, n_active_,
            active_set_, is_active_>>

locals == <<beta, y_hat, kick_out, corr, change_ind, max_corr, R>>

\* EPS is 1e-16.  Every finite value compared with it is a rational n/d
\* with d < 2^31 < 1e16, so n/d > EPS exactly when n >= 1; +inf > EPS, and
\* no comparison with NaN holds.
GtEPS(a) == ~IsNaN(a) /\ a[1] >= 1

\* a <= EPS
LeEPS(a) == ~IsNaN(a) /\ a[1] <= 0

\* DBL_MAX bounds every finite value of the model from above, as +inf does:
\* v < DBL_MAX holds for the finite v and fails for +inf and NaN.
DBL_MAX == PosInf

\* u32 change_ind = -1, the "no index" value (2^32 - 1 in the code)
NoInd == -1

p_ == Len(X_)

n_ == Len(y_)

Vec(v) == [i \in 1..Len(v) |-> Num(v[i])]

Zeros(k) == [i \in 1..k |-> Zero]

\* X_.col(j), j 0-based
Col(j) == X_[j + 1]

\* Lars::ComputeXty
ComputeXty(Xm, yv) == [j \in 1..Len(Xm) |-> Dot(Xm[j], yv)]

\* Lars::ComputeGram
ComputeGram(Xm, en, l2) ==
    [i \in 1..Len(Xm) |->
       [j \in 1..Len(Xm) |->
          IF en /\ i = j THEN Add(Dot(Xm[i], Xm[j]), l2) ELSE Dot(Xm[i], Xm[j])]]

----------------------------------------------------------------------------
(* Inputs                                                                  *)

\* DoLARS calls on one solver
MaxRuns == 2

\* SetY and UpdateX calls on one solver
MaxUpdates == 2

\* Datasets: X as columns, y
Datasets ==
    { [X |-> << <<1, 0, 0>>, <<2, 2, 1>>, <<1, 0, -1>> >>, y |-> <<2, -1, 1>>],
      [X |-> << <<-1, 1>>, <<-1, 2>> >>,                   y |-> <<2, -1>>],
      [X |-> << <<1, 0>>, <<0, 1>> >>,                     y |-> <<1, 0>>] }

\* Values of desired_lambda
Lambdas == {Num(0), Num(2), Num(10)}

\* Values of lambda_2
Ridges == {Num(1)}

\* Responses SetY may install
Responses == { <<0, 1>>, <<1, 1, 0>> }

\* Columns UpdateX may install
NewColumns == { <<1>>, <<2, 0>> }

----------------------------------------------------------------------------
(* Construction and configuration                                          *)

\* Lars::Lars(): only lasso_ and elastic_net_ are set; nothing else is read
\* before an Init call sets it.
Init ==
    /\ X_ = <<>> /\ y_ = <<>> /\ Gram_ = <<>> /\ Xty_ = <<>>
    /\ use_cholesky_ = FALSE
    /\ lasso_ = FALSE /\ desired_lambda_ = Zero
    /\ elastic_net_ = FALSE /\ lambda_2_ = Zero
    /\ beta_path_ = <<>> /\ lambda_path_ = <<>>
    /\ n_active_ = 0 /\ active_set_ = <<>> /\ is_active_ = <<>>
    /\ beta = <<>> /\ y_hat = <<>> /\ kick_out = FALSE /\ corr = <<>>
    /\ change_ind = NoInd /\ max_corr = Zero /\ R = <<>>
    /\ pc = "new" /\ outcome = "returned" /\ last_call = [op |-> "Lars"]
    /\ seen = {} /\ seen_path = <<>> /\ iters = 0 /\ runs = 0 /\ updates = 0

\* Lars::Init(X, y, use_cholesky), reached with the mode flags en, l2 that
\* the calling overload has set.
InitBody(ds, chol, en, l2) ==
    LET Xm == [j \in 1..Len(ds.X) |-> Vec(ds.X[j])]
        yv == Vec(ds.y)
    IN  /\ X_' = Xm
        /\ y_' = yv
        /\ use_cholesky_' = chol
        /\ Xty_' = ComputeXty(Xm, yv)
        /\ Gram_' = IF ~chol THEN ComputeGram(Xm, en, l2) ELSE Gram_
        /\ n_active_' = 0
        /\ active_set_' = <<>>
        /\ is_active_' = [j \in 1..Len(Xm) |-> FALSE]
        /\ seen' = {}
        /\ pc' = "idle"
        /\ outcome' = "returned"
        /\ UNCHANGED <<beta_path_, lambda_path_, seen_path, iters, runs,
                       updates>>
        /\ UNCHANGED locals

\* The solver is configured, possibly several times, before its first run.
CanCall == pc \in {"new", "idle"} /\ runs = 0

\* Init(X, y, use_cholesky)
Init3 ==
    /\ CanCall
    /\ \E ds \in Datasets, chol \in BOOLEAN :
        /\ InitBody(ds, chol, elastic_net_, lambda_2_)
        /\ last_call' = [op |-> "Init"]
        /\ UNCHANGED <<lasso_, desired_lambda_, elastic_net_, lambda_2_>>

\* Init(X, y, use_cholesky, desired_lambda)
Init4 ==
    /\ CanCall
    /\ \E ds \in Datasets, chol \in BOOLEAN, dl \in Lambdas :
        /\ lasso_' = TRUE
        /\ desired_lambda_' = dl
        /\ InitBody(ds, chol, elastic_net_, lambda_2_)
        /\ last_call' = [op |-> "Init"]
        /\ UNCHANGED <<elastic_net_, lambda_2_>>

\* Init(X, y, use_cholesky, desired_lambda, lambda_2)
Init5 ==
    /\ CanCall
    /\ \E ds \in Datasets, chol \in BOOLEAN, dl \in Lambdas, l2 \in Ridges :
        /\ elastic_net_' = TRUE
        /\ lambda_2_' = l2
        /\ lasso_' = TRUE
        /\ desired_lambda_' = dl
        /\ InitBody(ds, chol, TRUE, l2)
        /\ last_call' = [op |-> "Init"]

\* Lars::SetY
SetY ==
    \E yv \in Responses :
        /\ pc = "idle" /\ updates < MaxUpdates
        /\ Len(yv) = n_
        /\ y_' = Vec(yv)
        /\ outcome' = "returned"
        /\ last_call' = [op |-> "SetY"]
        /\ updates' = updates + 1
        /\ UNCHANGED <<X_, Gram_, Xty_, use_cholesky_, lasso_, desired_lambda_,
                       elastic_net_, lambda_2_, beta_path_, lambda_path_,
                       n_active_, active_set_, is_active_, pc, seen, seen_path,
                       iters, runs>>
        /\ UNCHANGED locals

----------------------------------------------------------------------------
(* GramCache: warm-start update                                            *)

\* col_inds of UpdateX: one index, or index 0 and another one; p_ is the
\* first position past the columns.
ColInds == {<<1>>, <<0, 1>>, <<0, p_>>}

\* Whether X_.col(col_inds[i]) = new_cols.col(i) is a valid assignment
ValidAt(col_inds, new_cols, i) ==
    /\ col_inds[i] >= 0 /\ col_inds[i] < p_
    /\ Len(new_cols[i]) = n_

ValidUpdate(col_inds, new_cols) ==
    \A i \in 1..Len(col_inds) : ValidAt(col_inds, new_cols, i)

\* The number of assignments of the first loop of UpdateX that succeed
\* before the first invalid one.
RECURSIVE ValidPrefix(_, _, _)
ValidPrefix(col_inds, new_cols, i) ==
    IF i > Len(col_inds) \/ ~ValidAt(col_inds, new_cols, i) THEN i - 1
    ELSE ValidPrefix(col_inds, new_cols, i + 1)

\* X_ after the assignments 1..k of the first loop of UpdateX
RECURSIVE ReplaceCols(_, _, _, _)
ReplaceCols(Xm, col_inds, new_cols, k) ==
    IF k = 0 THEN Xm
    ELSE [ReplaceCols(Xm, col_inds, new_cols, k - 1)
            EXCEPT ![col_inds[k] + 1] = Vec(new_cols[k])]

\* Lars::UpdateGram: the entries (i, j) with both i and j in col_inds are
\* recomputed; then lambda_2_ is added once per occurrence of i in col_inds.
UpdateGram(G, Xm, col_inds, en, l2) ==
    LET inds == {col_inds[k] + 1 : k \in 1..Len(col_inds)}
        times(i) == Cardinality({k \in 1..Len(col_inds) : col_inds[k] + 1 = i})
    IN  [i \in 1..Len(G) |->
           [j \in 1..Len(G) |->
              IF i \in inds /\ j \in inds
              THEN (IF en /\ i = j
                    THEN Add(Dot(Xm[i], Xm[j]), Mul(Num(times(i)), l2))
                    ELSE Dot(Xm[i], Xm[j]))
              ELSE G[i][j]]]

\* Lars::UpdateXty
UpdateXty(v, Xm, yv, col_inds) ==
    LET inds == {col_inds[k] + 1 : k \in 1..Len(col_inds)}
    IN  [i \in 1..Len(v) |-> IF i \in inds THEN Dot(Xm[i], yv) ELSE v[i]]

\* Lars::UpdateX on valid input
UpdateXOk ==
    \E col_inds \in ColInds, c \in NewColumns :
        LET new_cols == [i \in 1..Len(col_inds) |-> c]
            Xm == ReplaceCols(X_, col_inds, new_cols, Len(col_inds))
        IN  /\ pc = "idle" /\ updates < MaxUpdates
            /\ ValidUpdate(col_inds, new_cols)
            /\ X_' = Xm
            /\ Gram_' = IF ~use_cholesky_
                        THEN UpdateGram(Gram_, Xm, col_inds, elastic_net_, lambda_2_)
                        ELSE Gram_
            /\ Xty_' = UpdateXty(Xty_, Xm, y_, col_inds)
            /\ outcome' = "returned"
            /\ last_call' = [op |-> "UpdateX", valid |-> TRUE]
            /\ updates' = updates + 1
            /\ UNCHANGED <<y_, use_cholesky_, lasso_, desired_lambda_,
                           elastic_net_, lambda_2_, beta_path_, lambda_path_,
                           n_active_, active_set_, is_active_, pc, seen, seen_path,
                           iters, runs>>
            /\ UNCHANGED locals

\* Lars::UpdateX on an invalid column index or a column of the wrong length.
\* The code checks nothing; the library's bounds and size checks (on in its
\* default build) throw at the first invalid assignment, after the
\* assignments before it.
UpdateXThrow ==
    \E col_inds \in ColInds, c \in NewColumns :
        LET new_cols == [i \in 1..Len(col_inds) |-> c]
            k == ValidPrefix(col_inds, new_cols, 1)
        IN  /\ pc = "idle" /\ updates < MaxUpdates
            /\ ~ValidUpdate(col_inds, new_cols)
            /\ X_' = ReplaceCols(X_, col_inds, new_cols, k)
            /\ outcome' = "threw"
            /\ last_call' = [op |-> "UpdateX", valid |-> FALSE]
            /\ updates' = updates + 1
            /\ UNCHANGED <<y_, Gram_, Xty_, use_cholesky_, lasso_, desired_lambda_,
                           elastic_net_, lambda_2_, beta_path_, lambda_path_,
                           n_active_, active_set_, is_active_, pc, seen, seen_path,
                           iters, runs>>
            /\ UNCHANGED locals

----------------------------------------------------------------------------
(* PathSolver: DoLARS                                                      *)

\* abs_corr.max(change_ind): the first index (0-based) of the largest |v[i]|
RECURSIVE ArgMaxAbs(_, _, _)
ArgMaxAbs(v, i, best) ==
    IF i > Len(v) THEN best
    ELSE ArgMaxAbs(v, i + 1,
                   IF Lt(FAbs(v[best + 1]), FAbs(v[i])) THEN i - 1 ELSE best)

\* DoLARS up to its main loop; dl is the argument of DoLARS(desired_lambda)
\* or, for DoLARS(), the value desired_lambda_ has.
DoLARSStart(dl) ==
    LET first == ArgMaxAbs(Xty_, 1, 0)
    IN  /\ pc = "idle" /\ runs < MaxRuns
        /\ desired_lambda_' = dl
        /\ beta' = Zeros(p_)
        /\ y_hat' = Zeros(n_)
        /\ kick_out' = FALSE
        /\ lambda_2_' = IF elastic_net_ THEN lambda_2_ ELSE Num(-1)
        /\ corr' = Xty_
        /\ change_ind' = first
        /\ max_corr' = FAbs(Xty_[first + 1])
        /\ beta_path_' = Append(beta_path_, Zeros(p_))
        /\ lambda_path_' = Append(lambda_path_, FAbs(Xty_[first + 1]))
        /\ seen_path' = Append(seen_path, seen)
        /\ R' = <<>>
        /\ pc' = "loop"
        /\ last_call' = [op |-> "DoLARS"]
        /\ iters' = 0
        /\ runs' = runs + 1
        /\ UNCHANGED <<X_, y_, Gram_, Xty_, use_cholesky_, lasso_, elastic_net_,
                       n_active_, active_set_, is_active_, outcome, seen, updates>>

\* DoLARS()
DoLARS == DoLARSStart(desired_lambda_)

\* DoLARS(desired_lambda)
DoLARSLambda == \E dl \in Lambdas : DoLARSStart(dl)

\* The condition of the main loop
LoopCond == n_active_ < p_ /\ GtEPS(max_corr)

\* Lars::Deactivate(active_var_ind): the active set without position
\* active_var_ind (0-based)
Deactivate(as, active_var_ind) ==
    [i \in 1..(Len(as) - 1) |-> as[IF i <= active_var_ind THEN i ELSE i + 1]]

\* Lars::Activate(var_ind)
Activate(as, var_ind) == Append(as, var_ind)

\* The minimum-ratio test of one inactive variable ind (0-based); acc is
\* <<gamma, change_ind>> so far.
RatioStep(acc, ind, y_hat_direction, normalization) ==
    LET dir_corr == Dot(Col(ind), y_hat_direction)
        val1 == Div(Sub(max_corr, corr[ind + 1]), Sub(normalization, dir_corr))
        val2 == Div(Add(max_corr, corr[ind + 1]), Add(normalization, dir_corr))
        a1 == IF Gt0(val1) /\ Lt(val1, acc[1]) THEN <<val1, ind>> ELSE acc
    IN  IF Gt0(val2) /\ Lt(val2, a1[1]) THEN <<val2, ind>> ELSE a1

\* The loop over ind = 0..p_-1 of the minimum-ratio test, from ind on
RECURSIVE MinRatio(_, _, _, _, _)
MinRatio(ind, acc, isact, y_hat_direction, normalization) ==
    IF ind >= p_ THEN acc
    ELSE MinRatio(ind + 1,
                  IF isact[ind + 1] THEN acc
                  ELSE RatioStep(acc, ind, y_hat_direction, normalization),
                  isact, y_hat_direction, normalization)

\* The LASSO bound: the loop over the active positions i (1-based here), from
\* i on; acc is <<lasso_bound_on_gamma, active_ind_to_kick_out>> so far.
RECURSIVE LassoBound(_, _, _, _)
LassoBound(i, acc, as, beta_direction) ==
    IF i > Len(beta_direction) THEN acc
    ELSE LET val == Div(Neg(beta[as[i] + 1]), beta_direction[i])
         IN  LassoBound(i + 1,
                        IF Gt0(val) /\ Lt(val, acc[1]) THEN <<val, i - 1>> ELSE acc,
                        as, beta_direction)

\* Lars::InterpolateBeta: the last entry of the coefficient path
InterpolateBeta(bp, lp, dl, ultimate_lambda) ==
    LET path_length == Len(bp)
        penultimate_lambda == lp[path_length - 1]
        interp == Div(Sub(penultimate_lambda, dl),
                      Sub(penultimate_lambda, ultimate_lambda))
    IN  [j \in 1..Len(bp[path_length]) |->
           Add(Mul(Sub(One, interp), bp[path_length - 1][j]),
               Mul(interp, bp[path_length][j]))]

\* The interpolation weight InterpolateBeta computes on the two last entries
Interp(lp, dl) ==
    Div(Sub(lp[Len(lp) - 1], dl), Sub(lp[Len(lp) - 1], lp[Len(lp)]))

\* Step 1 of an iteration: the factor and the active set after the kick-out
\* or the activation of change_ind.
NewGramCol ==
    [i \in 1..n_active_ |-> Dot(Col(active_set_[i]), Col(change_ind))]

Step1R ==
    IF ~use_cholesky_ THEN R
    ELSE IF kick_out THEN CholeskyDelete(R, change_ind)
    ELSE CholeskyInsert(R, Col(change_ind), NewGramCol, elastic_net_, lambda_2_)

Step1Active ==
    IF kick_out THEN Deactivate(active_set_, change_ind)
    ELSE Activate(active_set_, change_ind)

Step1IsActive ==
    IF kick_out THEN [is_active_ EXCEPT ![active_set_[change_ind + 1] + 1] = FALSE]
    ELSE [is_active_ EXCEPT ![change_ind + 1] = TRUE]

\* n_active_ when an activation leaves it as it is
Step1NUncounted == IF kick_out THEN n_active_ - 1 ELSE n_active_

Step1N == IF kick_out THEN n_active_ - 1 ELSE n_active_ + 1

\* Step 1 indexes out of range (the library's bounds check throws): a
\* kick-out of the only column of R, whose span(0, n - 2) wraps around, or an
\* activation of the "no index" value.
Step1Throws ==
    IF kick_out
    THEN change_ind < 0 \/ change_ind >= n_active_
         \/ (use_cholesky_ /\ (Len(R) < 2 \/ change_ind >= Len(R)))
    ELSE change_ind < 0 \/ change_ind >= p_

\* s: the signs of the correlations of the active variables
Signs(as) ==
    [i \in 1..Len(as) |-> Div(corr[as[i] + 1], FAbs(corr[as[i] + 1]))]

\* Gram_active % trans(S) % S of the non-factorized branch
SignedGram(as, s) ==
    [i \in 1..Len(as) |->
       [j \in 1..Len(as) |-> Mul(Mul(Gram_[as[i] + 1][as[j] + 1], s[j]), s[i])]]

\* unnormalized_beta_direction
Unnormalized(R1, as, s) ==
    IF use_cholesky_ THEN BackSolve(R1, ForwardSolve(R1, s, Len(R1)), 1)
    ELSE Solve(SignedGram(as, s), [i \in 1..Len(as) |-> One])

\* The operands of the solves differ in size: the library's size check throws.
SizeMismatch(R1, as) == use_cholesky_ /\ Len(R1) # Len(as)

\* The system to solve is exactly singular, or holds a NaN.  What the library
\* then does depends on its version: it signals the failure (an exception
\* leaves DoLARS), or it hands back a value that is no solution and DoLARS
\* goes on with it.
Degenerate(R1, as, s) ==
    IF use_cholesky_
    THEN \E i \in 1..Len(R1) : IsZero(R1[i][i]) \/ ~IsFinite(R1[i][i])
    ELSE Singular(SignedGram(as, s))

\* Whether the solve of this iteration throws: TRUE, FALSE or either
SolveThrows(R1, as, s) ==
    IF SizeMismatch(R1, as) THEN {TRUE}
    ELSE IF Degenerate(R1, as, s) THEN {TRUE, FALSE}
    ELSE {FALSE}

\* normalization
Normalization(s, d) ==
    IF use_cholesky_ THEN Div(One, Sqrt(Dot(s, d)))
    ELSE Div(One, Sqrt(SumSeq(d)))

\* beta_direction
BetaDirection(normalization, d, s) ==
    IF use_cholesky_ THEN [i \in 1..Len(d) |-> Mul(normalization, d[i])]
    ELSE [i \in 1..Len(d) |-> Mul(Mul(normalization, d[i]), s[i])]

\* Lars::ComputeYHatDirection
ComputeYHatDirection(as, beta_direction) ==
    [r \in 1..n_ |->
       SumSeq([i \in 1..Len(as) |-> Mul(beta_direction[i], Col(as[i])[r])])]

\* beta after "beta(i) += gamma * beta_direction(i)" for all i: the position
\* in the active set in place of the index it holds
UpdateBetaByPosition(b, as, gamma, beta_direction) ==
    [j \in 1..Len(b) |->
       Add(b[j], IF j <= Len(as) THEN Mul(gamma, beta_direction[j]) ELSE Zero)]

\* beta after "beta(active_set_[i]) += gamma * beta_direction(i)" for all i
UpdateBeta(b, as, gamma, beta_direction) ==
    [j \in 1..Len(b) |->
       Add(b[j], SumSeq([i \in 1..Len(as) |->
                           IF as[i] + 1 = j THEN Mul(gamma, beta_direction[i])
                           ELSE Zero]))]

\* The end of an iteration: the path entries are appended, the correlations
\* recomputed and the LASSO stopping test made.
Record(kick, ci, new_beta, new_y_hat, new_max_corr) ==
    LET bp == Append(beta_path_, new_beta)
        lp == Append(lambda_path_, new_max_corr)
    IN  /\ kick_out' = kick
        /\ change_ind' = ci
        /\ y_hat' = new_y_hat
        /\ beta' = new_beta
        /\ corr' = [j \in 1..p_ |-> Sub(Xty_[j], Dot(X_[j], new_y_hat))]
        /\ max_corr' = new_max_corr
        /\ seen_path' = Append(seen_path, seen')
        /\ IF lasso_ /\ Le(new_max_corr, desired_lambda_)
           THEN /\ beta_path_' =
                     [bp EXCEPT ![Len(bp)] =
                        InterpolateBeta(bp, lp, desired_lambda_, new_max_corr)]
                /\ lambda_path_' = [lp EXCEPT ![Len(lp)] = desired_lambda_]
                /\ pc' = "idle" /\ outcome' = "returned"
           ELSE /\ beta_path_' = bp
                /\ lambda_path_' = lp
                /\ pc' = "loop" /\ UNCHANGED outcome

\* The step of length gamma along the direction
Advance(as, kick, gamma, ci, normalization, beta_direction, y_hat_direction) ==
    Record(kick, ci,
           UpdateBeta(beta, as, gamma, beta_direction),
           [r \in 1..n_ |-> Add(y_hat[r], Mul(gamma, y_hat_direction[r]))],
           Sub(max_corr, Mul(gamma, normalization)))

\* The step length: the minimum-ratio test over the inactive variables and,
\* in LASSO mode, the bound over the active ones.
StepLength(as, isact, normalization, beta_direction, y_hat_direction) ==
    LET gamma0 == Div(max_corr, normalization)
        entering == IF Len(as) < p_
                    THEN MinRatio(0, <<gamma0, NoInd>>, isact,
                                  y_hat_direction, normalization)
                    ELSE <<gamma0, NoInd>>
        bound == IF lasso_
                 THEN LassoBound(1, <<DBL_MAX, NoInd>>, as, beta_direction)
                 ELSE <<DBL_MAX, NoInd>>
    IN  IF lasso_ /\ Lt(bound[1], entering[1])
        THEN Advance(as, TRUE, bound[1], bound[2],
                     normalization, beta_direction, y_hat_direction)
        ELSE Advance(as, FALSE, entering[1], entering[2],
                     normalization, beta_direction, y_hat_direction)

\* The direction in coefficient space and in prediction space
Direction(as, isact, s, d, normalization) ==
    LET beta_direction == BetaDirection(normalization, d, s)
    IN  StepLength(as, isact, normalization, beta_direction,
                   ComputeYHatDirection(as, beta_direction))

\* One iteration of the main loop of DoLARS (the whole loop body).
LoopIter ==
    /\ pc = "loop" /\ LoopCond
    /\ UNCHANGED <<X_, y_, Gram_, Xty_, use_cholesky_, lasso_, desired_lambda_,
                   elastic_net_, lambda_2_, last_call, runs,
                   updates>>
    /\ iters' = iters + 1
    /\ IF Step1Throws
       THEN /\ pc' = "idle" /\ outcome' = "threw"
            /\ kick_out' = FALSE
            /\ UNCHANGED <<beta_path_, lambda_path_, n_active_, active_set_,
                           is_active_, beta, y_hat, corr, change_ind, max_corr,
                           R, seen, seen_path>>
       ELSE
       LET R1 == Step1R
           as == Step1Active
           s == Signs(as)
       IN  /\ R' = R1
           /\ active_set_' = as
           /\ is_active_' = Step1IsActive
           /\ n_active_' = Step1N
           /\ seen' = IF kick_out THEN seen ELSE seen \cup {change_ind}
           /\ \E throws \in SolveThrows(R1, as, s) :
                IF throws
                THEN /\ pc' = "idle" /\ outcome' = "threw"
                     /\ kick_out' = FALSE
                     /\ UNCHANGED <<beta_path_, lambda_path_, beta, y_hat, corr,
                                    change_ind, max_corr, seen_path>>
                ELSE LET d == Unnormalized(R1, as, s)
                     IN  Direction(as, Step1IsActive, s, d, Normalization(s, d))

\* The loop condition is false: DoLARS returns.
LoopExit ==
    /\ pc = "loop" /\ ~LoopCond
    /\ pc' = "idle" /\ outcome' = "returned"
    /\ UNCHANGED fields
    /\ UNCHANGED locals
    /\ UNCHANGED <<last_call, seen, seen_path, iters, runs, updates>>

Next ==
    \/ Init3 \/ Init4 \/ Init5
    \/ SetY
    \/ UpdateXOk \/ UpdateXThrow
    \/ DoLARS \/ DoLARSLambda
    \/ LoopIter \/ LoopExit

Spec == Init /\ [][Next]_vars

----------------------------------------------------------------------------
(* Plain LARS, run once after Init, on a family of datasets                *)

\* The number of columns of a dataset of the family
MaxP == 3

\* The columns and the responses of the family
FamilyCols ==
    { <<1, 0, 0>>, <<1, 1, 0>>, <<0, 1, 1>>, <<1, -1, 1>>, <<2, 0, 1>>, <<-1, 2, 1>> }

FamilyY == { <<1, 0, 0>>, <<1, 2, 0>>, <<0, 0, 0>>, <<1, -1, 2>>, <<0, 1, -1>> }

FamilyX == UNION {[1..k -> FamilyCols] : k \in 1..MaxP}

\* Init(X, y, use_cholesky) of a new solver on a dataset of the family
Init3Family ==
    /\ pc = "new"
    /\ \E Xc \in FamilyX, yv \in FamilyY, chol \in BOOLEAN :
        /\ InitBody([X |-> Xc, y |-> yv], chol, elastic_net_, lambda_2_)
        /\ last_call' = [op |-> "Init"]
        /\ UNCHANGED <<lasso_, desired_lambda_, elastic_net_, lambda_2_>>

\* DoLARS() as the first run of the solver
FirstRun == runs = 0 /\ DoLARS

NextPlain == Init3Family \/ FirstRun \/ LoopIter \/ LoopExit

SpecPlain == Init /\ [][NextPlain]_vars

----------------------------------------------------------------------------
(* Properties                                                              *)

\* The indices the active set holds
ActiveIndices(as) == {as[i] : i \in 1..Len(as)}

\* A run of DoLARS has returned
RunReturned == pc = "idle" /\ last_call.op = "DoLARS" /\ outcome = "returned"

\* The step is an iteration of the main loop
IsIteration == pc = "loop" /\ LoopCond

\* The step is an iteration that ends in the LASSO stopping test
IsLassoStop == IsIteration /\ pc' = "idle" /\ outcome' = "returned"

\* C1: after a run has returned, no entry of lambda_path_ is greater than the
\* entry before it, the last entry (which the stopping test overwrites with
\* desired_lambda_) included.
C1_PathNonIncreasing ==
    RunReturned =>
        \A k \in 2..Len(lambda_path_) : ~Lt(lambda_path_[k - 1], lambda_path_[k])

\* X has full column rank: its Gram matrix is not singular
FullColumnRank == ~Singular(ComputeGram(X_, FALSE, Zero))

\* The first run of a solver in plain mode (lasso_ and elastic_net_ off) on a
\* dataset of full column rank, started right after Init
PlainFreshRun ==
    /\ last_call.op = "DoLARS" /\ runs = 1 /\ updates = 0
    /\ ~lasso_ /\ ~elastic_net_
    /\ FullColumnRank

\* C2 as stated: a plain run on a dataset of full column rank, started right
\* after Init, makes at most p iterations and returns with n_active_ = p_.
C2_EndsWithAllActive ==
    (PlainFreshRun /\ pc = "idle") =>
        (outcome = "returned" /\ iters <= p_ /\ n_active_ = p_)

\* C2 as the code has it: such a run makes at most p iterations, one per
\* activated variable, and returns with n_active_ = p_ or with
\* max_corr <= EPS, whichever comes first.
C2_EndsAllActiveOrUncorrelated ==
    PlainFreshRun =>
        /\ iters <= p_ /\ iters = n_active_
        /\ pc = "idle" => (outcome = "returned"
                             /\ (n_active_ = p_ \/ LeEPS(max_corr)))

\* A plain fresh run on three columns has returned after three iterations
\* with the three of them active.
C2_Witness ==
    PlainFreshRun /\ pc = "idle" /\ p_ = 3 /\ iters = 3 /\ n_active_ = 3

\* C3: in every entry of beta_path_, the last one after interpolation
\* included, the coefficient of an index that has not been in the active set
\* up to the step that appended the entry is exactly zero.
C3_Sparsity ==
    \A k \in 1..Len(beta_path_) :
        \A j \in 1..Len(beta_path_[k]) :
            (j - 1) \notin seen_path[k] => beta_path_[k][j] = Zero

\* A LASSO run has stopped by interpolating strictly between its last two
\* entries, with a nonzero coefficient and a variable that was never active.
C3_Witness ==
    /\ RunReturned /\ lasso_ /\ Len(beta_path_) >= 2
    /\ lambda_path_[Len(lambda_path_)] = desired_lambda_
    /\ Lt(max_corr, desired_lambda_)
    /\ Lt(desired_lambda_, lambda_path_[Len(lambda_path_) - 1])
    /\ \E j \in 1..p_ : (j - 1) \notin seen_path[Len(seen_path)]
    /\ \E j \in 1..p_ : /\ (j - 1) \in seen_path[Len(seen_path)]
                         /\ IsFinite(beta_path_[Len(beta_path_)][j])
                         /\ ~IsZero(beta_path_[Len(beta_path_)][j])

\* C4: when an iteration in LASSO mode has flagged an active variable for
\* kick-out, the next step of the run is an iteration, and it removes that
\* variable from the active set.
C4_KickOutRemovedNext ==
    [][(pc = "loop" /\ kick_out) =>
          /\ iters' = iters + 1
          /\ active_set_[change_ind + 1] \notin ActiveIndices(active_set_')]_vars

\* The step is an UpdateX call on valid input, in the mode that keeps Gram_
UpdatesGram ==
    /\ updates' = updates + 1 /\ last_call'.op = "UpdateX" /\ last_call'.valid
    /\ ~use_cholesky_

\* C5: an UpdateX call on valid input, made when Gram_ and Xty_ are those of
\* X_ and y_, leaves Gram_ and Xty_ those of the updated X_ and of y_, as
\* ComputeGram and ComputeXty would compute them.
C5_UpdateEqualsRecomputation ==
    [][(/\ UpdatesGram
        /\ Gram_ = ComputeGram(X_, elastic_net_, lambda_2_)
        /\ Xty_ = ComputeXty(X_, y_)) =>
          /\ Gram_' = ComputeGram(X_', elastic_net_, lambda_2_)
          /\ Xty_' = ComputeXty(X_', y_)]_vars

\* The step is an iteration whose CholeskyInsert takes the square root of a
\* radicand that is not positive
InsertsNonPositive ==
    /\ IsIteration /\ use_cholesky_ /\ ~kick_out /\ ~Step1Throws
    /\ Le(InsertRadicand(R, Col(change_ind), NewGramCol, elastic_net_, lambda_2_),
          Zero)

\* C6: an iteration whose CholeskyInsert computes a radicand that is not
\* positive ends the run in an error, and appends nothing to beta_path_.
C6_IllConditionedSurfaced ==
    [][InsertsNonPositive =>
          (pc' = "idle" /\ outcome' = "threw" /\ beta_path_' = beta_path_)]_vars

\* C7: an UpdateX call with an invalid column index or a column of the wrong
\* length reports an error and leaves X_, Gram_ and Xty_ as they were.
C7_MismatchAtomic ==
    [][(updates' = updates + 1 /\ last_call'.op = "UpdateX"
        /\ ~last_call'.valid) =>
          (outcome' = "threw" /\ X_' = X_ /\ Gram_' = Gram_ /\ Xty_' = Xty_)]_vars

\* C8: once the solver is initialized, after every call and at every
\* iteration boundary, active_set_ holds distinct indices in 0..p_-1, index i
\* is in it exactly when is_active_[i], and n_active_ is its length.
C8_ActiveSetInvariant ==
    pc # "new" =>
        /\ n_active_ = Len(active_set_)
        /\ \A i \in 1..Len(active_set_) : active_set_[i] \in 0..(p_ - 1)
        /\ \A i, k \in 1..Len(active_set_) :
              active_set_[i] = active_set_[k] => i = k
        /\ Len(is_active_) = p_
        /\ \A j \in 1..Len(is_active_) :
              is_active_[j] <=> (j - 1) \in ActiveIndices(active_set_)

\* C9: when the LASSO stopping test fires, the path has at least two
\* entries, desired_lambda_ lies between the last one and the one before it,
\* and the interpolation weight is in [0, 1].
C9_InterpolationPrecondition ==
    [][IsLassoStop =>
          /\ Len(lambda_path_') >= 2
          /\ Le(max_corr', desired_lambda_)
          /\ Le(desired_lambda_, lambda_path_[Len(lambda_path_)])
          /\ Le(Zero, Interp(Append(lambda_path_, max_corr'), desired_lambda_))
          /\ Le(Interp(Append(lambda_path_, max_corr'), desired_lambda_), One)]_vars

\* trans(M) * M
Gramian(M) ==
    [i \in 1..Len(M) |->
       [j \in 1..Len(M) |->
          SumSeq([k \in 1..Len(M) |-> Mul(M[k][i], M[k][j])])]]

\* The Gram matrix of the columns as holds, in the order of as, with
\* lambda_2_ on the diagonal in elastic-net mode
ActiveGram(as) ==
    [i \in 1..Len(as) |->
       [j \in 1..Len(as) |->
          IF elastic_net_ /\ i = j
          THEN Add(Dot(Col(as[i]), Col(as[j])), lambda_2_)
          ELSE Dot(Col(as[i]), Col(as[j]))]]

\* M is a square upper-triangular matrix with k rows
UpperTriangular(M, k) ==
    /\ Len(M) = k
    /\ \A i \in 1..k : Len(M[i]) = k
    /\ \A i \in 1..k : \A j \in 1..(i - 1) : M[i][j] = Zero

\* C10: in every iteration of a run with use_cholesky_, after the insert or
\* the delete of step 1, R is upper triangular with n_active_ rows and
\* trans(R) * R is the Gram matrix of the active columns in active-set order.
C10_CholeskyConsistent ==
    [][(IsIteration /\ use_cholesky_ /\ ~Step1Throws) =>
          /\ n_active_' = Len(active_set_')
          /\ UpperTriangular(R', n_active_')
          /\ Gramian(R') = ActiveGram(active_set_')]_vars

====
